---- MODULE Spec2Model ----
(***************************************************************************)
(* Model of the voice assistant server: the websocket connection handler   *)
(* of app.py (one coroutine per connection on a single asyncio event loop) *)
(* and the per-session VoiceAssistantBackend of backend.py.                *)
(***************************************************************************)
EXTENDS Integers, Sequences, FiniteSets, TLC

\* ------------------------------------------------------------------ bounds
MaxConns == 2           \* connections the clients open
MaxEvents == 2          \* inbound frames of the one client of Spec
PairEvents == 1         \* inbound frames of the concurrent clients of SpecPair, together
MaxClock == 2           \* last instant of the wall clock
LongEvents == 6         \* inbound frames of the one long conversation of SpecHistory

\* ------------------------------------------------------- program constants
MAX_CONVERSATION_HISTORY == 10
TicksPerSecond == 2     \* instants per clock second: "%Y%m%d_%H%M%S" drops the rest

\* the first sentence of the prompt stands for the whole text
SYSTEM_PROMPT == "You are a helpful, friendly, and conversational AI voice assistant. (...)"
WELCOME_MESSAGE == "Hello! I'm your AI voice assistant. I'm here to help you with any questions or conversations you'd like to have. How can I assist you today?"
WelcomeEventText == "Hello! How may I help you today?"
FallbackText == "I apologize, but I'm having trouble processing that right now. Could you please try again?"
FailedMessage == "Failed to process audio"

Conns == 1..MaxConns
NoTime == -1            \* a message dict without a "timestamp" key / a None start_time
NoType == ""            \* a message dict without a "type" key
NoAudio == ""           \* b""
NoName == <<>>          \* the "" that save_conversation returns on failure

VARIABLES
    clock,                \* datetime.now(), in instants
    pc,                   \* pc[c]: where connection c's websocket_endpoint coroutine is
    alive,                \* alive[c]: the client's end of connection c is open
    arrived,              \* arrived[c]: every inbound frame the client sent, in order
    nrecv,                \* nrecv[c]: frames receive_json has returned (or raised on)
    ncompleted,           \* ncompleted[c]: frames whose handling has finished
    sessions,             \* keys of the module-level dict `sessions`
    session_id,           \* backend.session_id of connection c's backend
    conversation_history, \* backend.conversation_history
    api_messages,         \* the list last passed to chat.completions.create
    local,                \* local[c]: the handler's locals while it handles one frame
    outbound,             \* outbound[c]: the events send_json delivered
    files,                \* the working directory: file name -> content
    calls                 \* calls[c]: how often each backend method / service was entered

vars == <<clock, pc, alive, arrived, nrecv, ncompleted, sessions, session_id,
          conversation_history, api_messages, local, outbound, files, calls>>

\* --------------------------------------------------------------- helpers
\* seq[-n:] of Python
PySuffix(seq, n) ==
    IF n = 0 \/ n >= Len(seq) THEN seq
    ELSE SubSeq(seq, Len(seq) - n + 1, Len(seq))

\* datetime.now().strftime("%Y%m%d_%H%M%S")
StrfTime(t) == t \div TicksPerSecond

TempFile(sid) == <<"temp_audio_", sid, ".wav">>
ConversationFile(sid) == <<"conversation_", sid, ".json">>

SystemEntry == [role |-> "system", content |-> SYSTEM_PROMPT,
                timestamp |-> NoTime, type |-> NoType]
Entry(r, text, t, ty) == [role |-> r, content |-> text, timestamp |-> t, type |-> ty]

NonSystem(h) == SelectSeq(h, LAMBDA m : m.role # "system")

WriteFile(fs, name, c, data) ==
    [n \in DOMAIN fs \cup {name} |->
        IF n = name THEN [writer |-> c, data |-> data] ELSE fs[n]]
RemoveFile(fs, name) == [n \in DOMAIN fs \ {name} |-> fs[n]]

\* mutant: the cut keeps the oldest messages instead of the newest
ApiMessages_oldest(h) ==
    LET all == [i \in 1..Len(h) |-> [role |-> h[i].role, content |-> h[i].content]]
    IN  IF Len(all) > MAX_CONVERSATION_HISTORY + 1
        THEN SubSeq(all, 1, MAX_CONVERSATION_HISTORY + 1)
        ELSE all

\* lines 87-96 of get_llm_response
ApiMessages(h) ==
    LET kept == SelectSeq(h, LAMBDA m : m.role \in {"system", "user", "assistant"})
        all == [i \in 1..Len(kept) |-> [role |-> kept[i].role, content |-> kept[i].content]]
    IN  IF Len(all) > MAX_CONVERSATION_HISTORY + 1
        THEN <<all[1]>> \o PySuffix(all, MAX_CONVERSATION_HISTORY)
        ELSE all

\* mutant: the system prompt is not filtered out of the saved messages
ConversationData_unfiltered(c, t) ==
    LET h == conversation_history[c]
    IN  [session_id |-> session_id[c],
         start_time |-> IF Len(h) > 1 THEN h[2].timestamp ELSE NoTime,
         end_time |-> t,
         messages |-> h]

\* the record save_conversation dumps
ConversationData(c, t) ==
    LET h == conversation_history[c]
    IN  [session_id |-> session_id[c],
         start_time |-> IF Len(h) > 1 THEN h[2].timestamp ELSE NoTime,
         end_time |-> t,
         messages |-> NonSystem(h)]

\* the external-service calls are plain blocking calls inside the coroutine: a
\* coroutine that is inside one holds the event loop
InServiceCall(c) == pc[c] \in {"welcome_tts", "stt", "llm", "tts"}
LoopFree(c) == \A d \in Conns \ {c} : ~InServiceCall(d)

Pending(c) == SubSeq(arrived[c], nrecv[c] + 1, Len(arrived[c]))
TotalArrived == LET RECURSIVE Sum(_)
                    Sum(n) == IF n = 0 THEN 0 ELSE Len(arrived[n]) + Sum(n - 1)
                IN  Sum(MaxConns)

Unbound == "(unbound)"  \* a local variable that was not assigned yet
NoLocal == [frame |-> "", user_text |-> Unbound, llm_raised |-> FALSE, text |-> "",
            audio |-> NoAudio, filename |-> NoName]
NoCalls == [stt |-> 0, llm |-> 0, tts |-> 0, save |-> 0]

Init ==
    /\ clock = 0
    /\ pc = [c \in Conns |-> "idle"]
    /\ alive = [c \in Conns |-> FALSE]
    /\ arrived = [c \in Conns |-> <<>>]
    /\ nrecv = [c \in Conns |-> 0]
    /\ ncompleted = [c \in Conns |-> 0]
    /\ sessions = {}
    /\ session_id = [c \in Conns |-> NoTime]
    /\ conversation_history = [c \in Conns |-> <<>>]
    /\ api_messages = [c \in Conns |-> <<>>]
    /\ local = [c \in Conns |-> NoLocal]
    /\ outbound = [c \in Conns |-> <<>>]
    /\ files = <<>>
    /\ calls = [c \in Conns |-> NoCalls]

\* ------------------------------------------------------ the environment
Frames == {"user_audio", "user_audio_undecodable", "end_conversation", "other", "malformed"}
Transcripts == {"What time is it?"}
Replies == {"It is noon."}
SttResults == Transcripts \cup {"", "raise"}
LlmResults == Replies \cup {"raise"}
TtsResults == {"audio", NoAudio, "raise"}
ExcKinds == {"WebSocketDisconnect", "Exception"}

\* a client opens connection c
ClientConnect(c) ==
    /\ pc[c] = "idle"
    /\ pc' = [pc EXCEPT ![c] = "connecting"]
    /\ alive' = [alive EXCEPT ![c] = TRUE]
    /\ UNCHANGED <<clock, arrived, nrecv, ncompleted, sessions, session_id,
                   conversation_history, api_messages, local, outbound, files, calls>>

\* the handler meets the connection only where it awaits it: a frame or a close
\* that arrives while the handler computes is seen at its next await
AtAwait(c) == pc[c] \in {"send_connected", "send_welcome", "recv", "send_response",
                         "send_error", "send_exception", "send_saved"}

\* the client of connection c sends one frame
ClientSend(c, frame, budget) ==
    /\ alive[c]
    /\ pc[c] = "recv"
    /\ TotalArrived < budget
    /\ arrived' = [arrived EXCEPT ![c] = Append(@, frame)]
    /\ UNCHANGED <<clock, pc, alive, nrecv, ncompleted, sessions, session_id,
                   conversation_history, api_messages, local, outbound, files, calls>>

\* the client's end of connection c goes away
ClientDrop(c) ==
    /\ alive[c]
    /\ AtAwait(c)
    /\ alive' = [alive EXCEPT ![c] = FALSE]
    /\ UNCHANGED <<clock, pc, arrived, nrecv, ncompleted, sessions, session_id,
                   conversation_history, api_messages, local, outbound, files, calls>>

\* datetime.now() returns t: the clock never runs backwards, and how far it has
\* advanced is seen only where the code reads it
Now(t) ==
    /\ t \in clock..MaxClock
    /\ clock' = t

\* ---------------------------------------------------------- backend.py
\* save_conversation at time t: the files after the call and the name it returns
SaveFiles(c, ok, t) ==
    IF ok THEN WriteFile(files, ConversationFile(session_id[c]), c, ConversationData(c, t))
    ELSE files
\* mutant: the file is named after the time of the export
SaveName_now(c, ok) == IF ok THEN ConversationFile(StrfTime(clock)) ELSE NoName

SaveName(c, ok) == IF ok THEN ConversationFile(session_id[c]) ELSE NoName

\* mutant: the welcome is inserted at the front of the list
WelcomeHistory_front(h, t) == <<Entry("assistant", WELCOME_MESSAGE, t, "welcome")>> \o h

\* mutant: the welcome entry carries no "type" key
WelcomeHistory_untagged(h, t) == Append(h, Entry("assistant", WELCOME_MESSAGE, t, NoType))

\* get_welcome_audio up to its synthesize_speech call
WelcomeHistory(h, t) == Append(h, Entry("assistant", WELCOME_MESSAGE, t, "welcome"))

\* mutant: the stored list is cut to the cap when the user message is appended
UserAppended_trim(h, text, t) ==
    <<h[1]>> \o PySuffix(Tail(Append(h, Entry("user", text, t, NoType))),
                         MAX_CONVERSATION_HISTORY)

\* get_llm_response, lines 80-85: the user message is appended before the call
UserAppended(h, text, t) == Append(h, Entry("user", text, t, NoType))

\* get_llm_response, lines 106-119: what the call's outcome does to the history
LlmHistory(h, r, t) ==
    IF r = "raise" THEN h ELSE Append(h, Entry("assistant", r, t, NoType))

\* mutant: the except clause returns no text
LlmText_empty(r) == IF r = "raise" THEN "" ELSE r

\* get_llm_response, lines 115-119: the text it returns
LlmText(r) == IF r = "raise" THEN FallbackText ELSE r

\* transcribe_audio, lines 69-73: the text it returns
TranscribedText(r) == IF r = "raise" THEN "" ELSE r

\* mutant: the `if not user_text` early return is missing
NoUserText_absent(user_text) == FALSE

\* process_user_audio, line 192: `if not user_text`
NoUserText(user_text) == user_text = ""

\* synthesize_speech: the bytes it returns
SynthAudio(r) == IF r = "raise" THEN NoAudio ELSE r

\* ------------------------------------------------------------- app.py
\* mutant: the response is sent whenever there is a text
Deliverable_text(text, audio) == text # ""

\* line 80: `if text_response and audio_response`
Deliverable(text, audio) == text # "" /\ audio # NoAudio

\* mutant: an exception of the export leaves the except clause before the `del`
Teardown_propagates(c, kind, saveOk, t) ==
    IF kind = "WebSocketDisconnect" /\ c \in sessions /\ ~saveOk
    THEN /\ Now(t)
         /\ pc' = [pc EXCEPT ![c] = "crashed"]
         /\ calls' = [calls EXCEPT ![c].save = @ + 1]
         /\ UNCHANGED <<files, sessions>>
    ELSE /\ pc' = [pc EXCEPT ![c] = "done"]
         /\ sessions' = sessions \ {c}
         /\ IF kind = "WebSocketDisconnect" /\ c \in sessions
            THEN /\ Now(t)
                 /\ files' = SaveFiles(c, saveOk, t)
                 /\ calls' = [calls EXCEPT ![c].save = @ + 1]
            ELSE UNCHANGED <<clock, files, calls>>

\* lines 110-120: the two except clauses around the receive loop
Teardown(c, kind, saveOk, t) ==
    /\ pc' = [pc EXCEPT ![c] = "done"]
    /\ IF kind = "WebSocketDisconnect"
       THEN IF c \in sessions
            THEN /\ Now(t)
                 /\ files' = SaveFiles(c, saveOk, t)
                 /\ calls' = [calls EXCEPT ![c].save = @ + 1]
                 /\ sessions' = sessions \ {c}
            ELSE UNCHANGED <<clock, files, calls, sessions>>
       ELSE /\ sessions' = sessions \ {c}
            /\ UNCHANGED <<clock, files, calls>>

\* lines 38-44: accept, create the backend, register it
Accept(c, t) ==
    /\ pc[c] = "connecting"
    /\ LoopFree(c)
    /\ Now(t)
    /\ pc' = [pc EXCEPT ![c] = "send_connected"]
    /\ session_id' = [session_id EXCEPT ![c] = StrfTime(t)]
    /\ conversation_history' = [conversation_history EXCEPT ![c] = <<SystemEntry>>]
    /\ sessions' = sessions \cup {c}
    /\ UNCHANGED <<alive, arrived, nrecv, ncompleted, api_messages, local,
                   outbound, files, calls>>

\* lines 47-54: send `connected`; then get_welcome_audio appends the welcome and
\* enters synthesize_speech. A failed send is outside every try block.
SendConnected(c, t) ==
    /\ pc[c] = "send_connected"
    /\ LoopFree(c)
    /\ IF alive[c]
       THEN /\ Now(t)
            /\ outbound' = [outbound EXCEPT ![c] = Append(@, [type |-> "connected"])]
            /\ conversation_history' = [conversation_history EXCEPT ![c] = WelcomeHistory(@, t)]
            /\ calls' = [calls EXCEPT ![c].tts = @ + 1]
            /\ pc' = [pc EXCEPT ![c] = "welcome_tts"]
       ELSE /\ pc' = [pc EXCEPT ![c] = "crashed"]
            /\ UNCHANGED <<clock, outbound, conversation_history, calls>>
    /\ UNCHANGED <<alive, arrived, nrecv, ncompleted, sessions, session_id,
                   api_messages, local, files>>

\* lines 54-55: synthesize_speech(WELCOME_MESSAGE) returns
WelcomeSynthReturn(c, r) ==
    /\ pc[c] = "welcome_tts"
    /\ local' = [local EXCEPT ![c] = [NoLocal EXCEPT !.audio = SynthAudio(r)]]
    /\ pc' = [pc EXCEPT ![c] = "send_welcome"]
    /\ UNCHANGED <<clock, alive, arrived, nrecv, ncompleted, sessions, session_id,
                   conversation_history, api_messages, outbound, files, calls>>

\* lines 57-64: send the welcome; a failure is caught and printed
SendWelcome(c) ==
    /\ pc[c] = "send_welcome"
    /\ LoopFree(c)
    /\ outbound' = [outbound EXCEPT ![c] =
            IF alive[c]
            THEN Append(@, [type |-> "assistant_response", text |-> WelcomeEventText,
                            audio |-> local[c].audio, is_welcome |-> TRUE])
            ELSE @]
    /\ local' = [local EXCEPT ![c] = NoLocal]
    /\ pc' = [pc EXCEPT ![c] = "recv"]
    /\ UNCHANGED <<clock, alive, arrived, nrecv, ncompleted, sessions, session_id,
                   conversation_history, api_messages, files, calls>>

\* mutant: the reply is sent by a task of its own and the loop receives meanwhile
CanReceive_early(c) == pc[c] \in {"recv", "send_response", "send_error"}

\* line 69: receive_json is awaited at the top of the loop only
CanReceive(c) == pc[c] = "recv"

\* the frame receive_json takes next from the connection
NextFrame(c) == Head(Pending(c))

\* one frame leaves the connection's queue; receive_json returns it or raises on it
Take(c, frame) ==
    /\ CanReceive(c)
    /\ LoopFree(c)
    /\ alive[c]
    /\ Pending(c) # <<>>
    /\ frame = NextFrame(c)
    /\ nrecv' = [nrecv EXCEPT ![c] = @ + 1]

\* lines 69-78 and 191, 57-63: a user_audio frame is decoded, process_user_audio
\* calls transcribe_audio, which writes the temporary file and calls the transcriber
ReceiveUserAudio(c) ==
    /\ Take(c, "user_audio")
    /\ files' = WriteFile(files, TempFile(session_id[c]), c, "audio")
    /\ calls' = [calls EXCEPT ![c].stt = @ + 1]
    /\ pc' = [pc EXCEPT ![c] = "stt"]
    /\ local' = [local EXCEPT ![c] = [NoLocal EXCEPT !.frame = "user_audio"]]
    /\ UNCHANGED <<clock, alive, arrived, ncompleted, sessions, session_id,
                   conversation_history, api_messages, outbound>>

\* lines 75, 94-95: base64.b64decode(data['audio']) raises inside the inner try
ReceiveUndecodable(c) ==
    /\ Take(c, "user_audio_undecodable")
    /\ pc' = [pc EXCEPT ![c] = "send_exception"]
    /\ local' = [local EXCEPT ![c] = [NoLocal EXCEPT !.frame = "user_audio"]]
    /\ UNCHANGED <<clock, alive, arrived, ncompleted, sessions, session_id,
                   conversation_history, api_messages, outbound, files, calls>>

\* lines 101-103: end_conversation calls save_conversation
ReceiveEndConversation(c, saveOk, t) ==
    /\ Take(c, "end_conversation")
    /\ Now(t)
    /\ files' = SaveFiles(c, saveOk, t)
    /\ calls' = [calls EXCEPT ![c].save = @ + 1]
    /\ local' = [local EXCEPT ![c] = [NoLocal EXCEPT !.frame = "end_conversation",
                                                     !.filename = SaveName(c, saveOk)]]
    /\ pc' = [pc EXCEPT ![c] = "send_saved"]
    /\ UNCHANGED <<alive, arrived, ncompleted, sessions, session_id,
                   conversation_history, api_messages, outbound>>

\* mutant: a frame of another type is answered with an error event
ReceiveOther_error(c) ==
    /\ Take(c, "other")
    /\ pc' = [pc EXCEPT ![c] = "send_error"]
    /\ local' = [local EXCEPT ![c] = [NoLocal EXCEPT !.frame = "other"]]
    /\ UNCHANGED <<clock, alive, arrived, ncompleted, sessions, session_id,
                   conversation_history, api_messages, outbound, files, calls>>

\* lines 70-101: a frame of any other type matches no branch; the loop goes round
ReceiveOther(c) ==
    /\ Take(c, "other")
    /\ ncompleted' = [ncompleted EXCEPT ![c] = @ + 1]
    /\ UNCHANGED <<clock, pc, alive, arrived, sessions, session_id,
                   conversation_history, api_messages, local, outbound, files, calls>>

\* lines 69, 117-120: receive_json raises on a frame that is not JSON
ReceiveMalformed(c) ==
    /\ Take(c, "malformed")
    /\ Teardown(c, "Exception", FALSE, clock)
    /\ ncompleted' = [ncompleted EXCEPT ![c] = @ + 1]
    /\ UNCHANGED <<alive, arrived, session_id,
                   conversation_history, api_messages, local, outbound>>

\* lines 69, 110-115: receive_json raises WebSocketDisconnect on a closed connection
ReceiveDisconnect(c, saveOk, t) ==
    /\ CanReceive(c)
    /\ LoopFree(c)
    /\ ~alive[c]
    /\ Teardown(c, "WebSocketDisconnect", saveOk, t)
    /\ UNCHANGED <<alive, arrived, nrecv, ncompleted, session_id,
                   conversation_history, api_messages, local, outbound>>

\* lines 63-73, 192-193, 198, 80-99 of backend.py: the transcriber returns or raises;
\* on a non-empty text get_llm_response appends the user message, builds the
\* message list and calls the generator
TranscribeReturn(c, r, t) ==
    /\ pc[c] = "stt"
    /\ files' = IF r = "raise" THEN files ELSE RemoveFile(files, TempFile(session_id[c]))
    /\ local' = [local EXCEPT ![c].user_text = TranscribedText(r)]
    /\ IF NoUserText(TranscribedText(r))
       THEN /\ pc' = [pc EXCEPT ![c] = "send_error"]
            /\ UNCHANGED <<clock, conversation_history, api_messages, calls>>
       ELSE /\ Now(t)
            /\ conversation_history' = [conversation_history EXCEPT ![c] =
                    UserAppended(@, TranscribedText(r), t)]
            /\ api_messages' = [api_messages EXCEPT ![c] = ApiMessages(conversation_history'[c])]
            /\ calls' = [calls EXCEPT ![c].llm = @ + 1]
            /\ pc' = [pc EXCEPT ![c] = "llm"]
    /\ UNCHANGED <<alive, arrived, nrecv, ncompleted, sessions, session_id, outbound>>

\* lines 106-119, 202: the generator returns or raises; synthesize_speech is called
LlmReturn(c, r, t) ==
    /\ pc[c] = "llm"
    /\ IF r = "raise" THEN UNCHANGED clock ELSE Now(t)
    /\ conversation_history' = [conversation_history EXCEPT ![c] = LlmHistory(@, r, t)]
    /\ local' = [local EXCEPT ![c].text = LlmText(r), ![c].llm_raised = (r = "raise")]
    /\ calls' = [calls EXCEPT ![c].tts = @ + 1]
    /\ pc' = [pc EXCEPT ![c] = "tts"]
    /\ UNCHANGED <<alive, arrived, nrecv, ncompleted, sessions, session_id,
                   api_messages, outbound, files>>

\* lines 138-142, 204 and app.py line 80: the synthesizer returns or raises
SynthReturn(c, r) ==
    /\ pc[c] = "tts"
    /\ local' = [local EXCEPT ![c].audio = SynthAudio(r)]
    /\ pc' = [pc EXCEPT ![c] =
            IF Deliverable(local[c].text, SynthAudio(r))
            THEN "send_response" ELSE "send_error"]
    /\ UNCHANGED <<clock, alive, arrived, nrecv, ncompleted, sessions, session_id,
                   conversation_history, api_messages, outbound, files, calls>>

\* a send inside the inner try: delivered, or caught by line 94
InnerSend(c, event) ==
    /\ LoopFree(c)
    /\ IF alive[c]
       THEN /\ outbound' = [outbound EXCEPT ![c] = Append(@, event)]
            /\ ncompleted' = [ncompleted EXCEPT ![c] = @ + 1]
            /\ local' = [local EXCEPT ![c] = NoLocal]
            /\ pc' = [pc EXCEPT ![c] = "recv"]
       ELSE /\ pc' = [pc EXCEPT ![c] = "send_exception"]
            /\ UNCHANGED <<outbound, ncompleted, local>>
    /\ UNCHANGED <<clock, alive, arrived, nrecv, sessions, session_id,
                   conversation_history, api_messages, files, calls>>

\* lines 82-87
SendResponse(c) ==
    /\ pc[c] = "send_response"
    /\ InnerSend(c, [type |-> "assistant_response", text |-> local[c].text,
                     audio |-> local[c].audio])

\* lines 89-92
SendError(c) ==
    /\ pc[c] = "send_error"
    /\ InnerSend(c, [type |-> "error", message |-> FailedMessage])

\* a send outside the inner try: delivered, or the exception reaches lines 110-120
OuterSend(c, event, kind, saveOk, t) ==
    /\ LoopFree(c)
    /\ IF alive[c]
       THEN /\ outbound' = [outbound EXCEPT ![c] = Append(@, event)]
            /\ pc' = [pc EXCEPT ![c] = "recv"]
            /\ UNCHANGED <<clock, sessions, files, calls>>
       ELSE /\ Teardown(c, kind, saveOk, t)
            /\ UNCHANGED outbound
    /\ ncompleted' = [ncompleted EXCEPT ![c] = @ + 1]
    /\ local' = [local EXCEPT ![c] = NoLocal]
    /\ UNCHANGED <<alive, arrived, nrecv, session_id,
                   conversation_history, api_messages>>

\* lines 94-99: the inner except clause sends str(e)
SendException(c, kind, saveOk, t) ==
    /\ pc[c] = "send_exception"
    /\ OuterSend(c, [type |-> "error", message |-> "str(e)"], kind, saveOk, t)

\* lines 104-108
SendSaved(c, kind, saveOk, t) ==
    /\ pc[c] = "send_saved"
    /\ OuterSend(c, [type |-> "conversation_saved", filename |-> local[c].filename],
                 kind, saveOk, t)

\* ------------------------------------------------------- specifications
Times == 0..MaxClock

\* everything connection c and its client can do, the client sending at most
\* `budget` frames
Handler(c, budget) ==
    \/ ClientConnect(c)
    \/ \E f \in Frames : ClientSend(c, f, budget)
    \/ ClientDrop(c)
    \/ \E t \in Times : Accept(c, t)
    \/ \E t \in Times : SendConnected(c, t)
    \/ \E r \in TtsResults : WelcomeSynthReturn(c, r)
    \/ SendWelcome(c)
    \/ ReceiveUserAudio(c)
    \/ ReceiveUndecodable(c)
    \/ \E ok \in BOOLEAN, t \in Times : ReceiveEndConversation(c, ok, t)
    \/ ReceiveOther(c)
    \/ ReceiveMalformed(c)
    \/ \E ok \in BOOLEAN, t \in Times : ReceiveDisconnect(c, ok, t)
    \/ \E r \in SttResults, t \in Times : TranscribeReturn(c, r, t)
    \/ \E r \in LlmResults, t \in Times : LlmReturn(c, r, t)
    \/ \E r \in TtsResults : SynthReturn(c, r)
    \/ SendResponse(c)
    \/ SendError(c)
    \/ \E k \in ExcKinds, ok \in BOOLEAN, t \in Times : SendException(c, k, ok, t)
    \/ \E k \in ExcKinds, ok \in BOOLEAN, t \in Times : SendSaved(c, k, ok, t)

\* Spec: one client, every frame and every failure
Next == Handler(1, MaxEvents)

Spec == Init /\ [][Next]_vars

\* SpecPair: all connections at once, on the one event loop
NextPair == \E c \in Conns : Handler(c, PairEvents)

SpecPair == Init /\ [][NextPair]_vars

\* SpecHistory: one client in one long conversation over a connection that stays
\* up; the generator may fail, the other services do not
NextHistory ==
    \/ ClientConnect(1)
    \/ ClientSend(1, "user_audio", LongEvents)
    \/ Accept(1, clock)
    \/ SendConnected(1, clock)
    \/ WelcomeSynthReturn(1, "audio")
    \/ SendWelcome(1)
    \/ ReceiveUserAudio(1)
    \/ \E r \in Transcripts : TranscribeReturn(1, r, clock)
    \/ \E r \in LlmResults : LlmReturn(1, r, clock)
    \/ SynthReturn(1, "audio")
    \/ SendResponse(1)

SpecHistory == Init /\ [][NextHistory]_vars

\* --------------------------------------------------------------- claims
History(c) == conversation_history[c]

\* connection c's handler is past the generator call of a user_audio frame whose
\* transcription was not empty
PastGeneration(c) ==
    /\ pc[c] \in {"tts", "send_response", "send_error", "send_exception"}
    /\ local[c].frame = "user_audio"
    /\ local[c].user_text \notin {Unbound, ""}

\* C1: every process_user_audio call with a non-empty transcription makes the
\* conversation log grow by exactly two entries, a user entry followed by an
\* assistant entry, whether the generator succeeded or the fallback text was used:
\* after the n-th such call the log holds the system message, the welcome and n
\* user/assistant pairs.
C1_TwoEntriesPerTurn ==
    \A c \in Conns :
        PastGeneration(c) =>
            /\ Len(History(c)) = 2 + 2 * calls[c].llm
            /\ History(c)[Len(History(c)) - 1].role = "user"
            /\ History(c)[Len(History(c))].role = "assistant"

\* connection c's handler has transcribed a user_audio frame to nothing (the
\* transcriber returned no text or failed) and has not finished handling it
EmptyTranscription(c) ==
    /\ local[c].frame = "user_audio"
    /\ local[c].user_text = ""

ErrorEvents(c) == SelectSeq(outbound[c], LAMBDA e : e.type = "error")

\* C2: when the transcription of a user_audio frame is empty or the transcriber
\* fails, the generator and the synthesizer are not called and the log does not
\* change; the handler emits one error event, and nothing else, and is back at
\* the receive loop with the session still registered; only when that send finds
\* the connection gone does the handler leave the loop.
C2_Step(c) ==
    /\ EmptyTranscription(c)' =>
          /\ pc'[c] \in {"send_error", "send_exception"}
          /\ conversation_history'[c] = conversation_history[c]
          /\ calls'[c].llm = calls[c].llm
          /\ calls'[c].tts = calls[c].tts
          /\ outbound'[c] = outbound[c]
          /\ c \in sessions'
    /\ (EmptyTranscription(c) /\ pc'[c] # pc[c] /\ alive[c]) =>
          /\ pc'[c] = "recv"
          /\ conversation_history'[c] = conversation_history[c]
          /\ calls'[c].llm = calls[c].llm
          /\ calls'[c].tts = calls[c].tts
          /\ Len(outbound'[c]) = Len(outbound[c]) + 1
          /\ ErrorEvents(c)' = Append(ErrorEvents(c), outbound'[c][Len(outbound'[c])])
          /\ c \in sessions'
    /\ (EmptyTranscription(c) /\ pc'[c] # pc[c] /\ ~alive[c]) =>
          /\ pc'[c] \in {"send_exception", "done"}
          /\ conversation_history'[c] = conversation_history[c]
          /\ outbound'[c] = outbound[c]

C2_EmptyTranscriptionShortCircuits == [][\A c \in Conns : C2_Step(c)]_vars

\* a session that transcribed nothing, sent the error and received a later frame
C2_Witness ==
    /\ calls[1].stt = 1
    /\ calls[1].llm = 0
    /\ Len(History(1)) = 2
    /\ Len(ErrorEvents(1)) = 1
    /\ ErrorEvents(1)[1].message = FailedMessage
    /\ nrecv[1] = 2
    /\ 1 \in sessions

\* C3: once its connection handler has ended, at whatever step, a session is no
\* longer in the registry.
C3_EndedHandlerDeregistered ==
    \A c \in Conns : pc[c] \in {"done", "crashed"} => c \notin sessions

\* C4: whenever a session leaves the registry, save_conversation was called for
\* it on that teardown path, before the removal.
C4_ExportBeforeDeregistration ==
    [][\A c \in Conns :
          (c \in sessions /\ c \notin sessions') => calls'[c].save = calls[c].save + 1]_vars

\* C5: two registered sessions never have the same record file name or the same
\* temporary audio file name.
C5_DistinctSessionFiles ==
    \A c, d \in sessions :
        c # d =>
            /\ ConversationFile(session_id[c]) # ConversationFile(session_id[d])
            /\ TempFile(session_id[c]) # TempFile(session_id[d])

ReceiveStep(c) ==
    \/ ReceiveUserAudio(c)
    \/ ReceiveUndecodable(c)
    \/ \E ok \in BOOLEAN, t \in Times : ReceiveEndConversation(c, ok, t)
    \/ ReceiveOther(c)
    \/ ReceiveMalformed(c)
AcceptStep(c) == \E t \in Times : Accept(c, t)

\* C6: while one session is inside an external-service call, another session's
\* pending frame can be received and a waiting connection can be accepted.
C6_OthersProgressDuringCall ==
    \A c, d \in Conns :
        (c # d /\ InServiceCall(c)) =>
            /\ (pc[d] = "recv" /\ alive[d] /\ Pending(d) # <<>>) => ENABLED ReceiveStep(d)
            /\ pc[d] = "connecting" => ENABLED AcceptStep(d)

InHandling(c) == pc[c] \in {"stt", "llm", "tts", "send_response", "send_error",
                            "send_exception", "send_saved"}
MessageType(frame) == IF frame = "user_audio_undecodable" THEN "user_audio" ELSE frame

C7_Inv ==
    \A c \in Conns :
        /\ InHandling(c) => nrecv[c] = ncompleted[c] + 1
        /\ ~InHandling(c) => nrecv[c] = ncompleted[c]
C7_Step(c) ==
    nrecv'[c] # nrecv[c] =>
        /\ pc[c] = "recv"
        /\ ncompleted[c] = nrecv[c]
        /\ nrecv'[c] = nrecv[c] + 1
        /\ local'[c].frame \in {"", MessageType(arrived[c][nrecv'[c]])}

\* C7: a session's frames are received in arrival order and one at a time: a frame
\* is received only at the top of the loop, when the handling of every earlier
\* frame (its stages or its early exit, and its outbound event) is complete.
C7_OneFrameAtATime == [](C7_Inv) /\ [][\A c \in Conns : C7_Step(c)]_vars

\* a frame waits in the queue while the generator works on the frame before it
C7_Witness ==
    /\ pc[1] = "llm"
    /\ nrecv[1] = 1
    /\ Len(Pending(1)) = 1

Projected(m) == [role |-> m.role, content |-> m.content]
BoundedView(h, cap) ==
    LET ns == NonSystem(h)
        k == IF cap < Len(ns) THEN cap ELSE Len(ns)
    IN  <<Projected(h[1])>> \o [i \in 1..k |-> Projected(ns[Len(ns) - k + i])]

C8_Inv ==
    \A c \in Conns :
        pc[c] = "llm" =>
            /\ api_messages[c] = BoundedView(History(c), MAX_CONVERSATION_HISTORY)
            /\ api_messages[c][1].role = "system"
            /\ Len(api_messages[c]) =
                  1 + (IF MAX_CONVERSATION_HISTORY < Len(NonSystem(History(c)))
                       THEN MAX_CONVERSATION_HISTORY ELSE Len(NonSystem(History(c))))
C8_Step(c) ==
    (pc[c] = "stt" /\ pc'[c] = "llm") =>
        /\ Len(History(c)') = Len(History(c)) + 1
        /\ SubSeq(History(c)', 1, Len(History(c))) = History(c)
        /\ History(c)'[Len(History(c)')].role = "user"

SystemPositions(h) == {i \in 1..Len(h) : h[i].role = "system"}

\* C9: from the construction of its backend on, a session's log holds exactly one
\* system message, and it is the first entry.
C9_OneSystemMessageFirst ==
    \A c \in Conns :
        /\ pc[c] \notin {"idle", "connecting"} => History(c) # <<>>
        /\ History(c) # <<>> => SystemPositions(History(c)) = {1}

\* a session that had a full turn, an export and a disconnect
C9_Witness ==
    /\ pc[1] = "done"
    /\ Len(History(1)) = 4
    /\ calls[1].save = 2
    /\ History(1)[1] = SystemEntry

EndConversation(c) == local[c].frame = "end_conversation"
SavedEvents(c) == SelectSeq(outbound[c], LAMBDA e : e.type = "conversation_saved")

C10_Inv ==
    \A c \in Conns :
        \A i \in 1..Len(SavedEvents(c)) :
            SavedEvents(c)[i].filename \in {NoName, ConversationFile(session_id[c])}
C10_Step(c) ==
    /\ (EndConversation(c)' \/ EndConversation(c)) =>
          conversation_history'[c] = conversation_history[c]
    /\ ((EndConversation(c)' \/ EndConversation(c)) /\ alive[c]) =>
          /\ sessions' = sessions
          /\ pc'[c] \in {"send_saved", "recv"}
    /\ (EndConversation(c)' /\ ~EndConversation(c)) =>
          /\ DOMAIN files' \subseteq DOMAIN files \cup {ConversationFile(session_id[c])}
          /\ \A n \in DOMAIN files \ {ConversationFile(session_id[c])} :
                n \in DOMAIN files' /\ files'[n] = files[n]
    /\ c \in sessions => session_id'[c] = session_id[c]

\* C10: handling end_conversation changes neither the log nor the registry and
\* the handler returns to the receive loop (unless the connection is gone when
\* conversation_saved is sent); an export writes no file but the one named after
\* the session's identifier, which never changes, so two exports in a row name
\* the same file.
C10_EndConversationFrame == [](C10_Inv) /\ [][\A c \in Conns : C10_Step(c)]_vars

\* two end_conversation frames in a row, both exported to the same file
C10_Witness ==
    /\ pc[1] = "recv"
    /\ 1 \in sessions
    /\ Len(SavedEvents(1)) = 2
    /\ SavedEvents(1)[1].filename = ConversationFile(session_id[1])
    /\ SavedEvents(1)[2].filename = SavedEvents(1)[1].filename
    /\ arrived[1] = <<"end_conversation", "end_conversation">>
    /\ Len(History(1)) = 2

\* connection c's step called save_conversation and the call changed the record
Exported(c) ==
    /\ calls'[c].save = calls[c].save + 1
    /\ files' # files

C11_Step(c) ==
    Exported(c) =>
        LET h == History(c)
            name == ConversationFile(session_id[c])
        IN  /\ name \in DOMAIN files'
            /\ Len(h) >= 2
            /\ files'[name].data.messages = SubSeq(h, 2, Len(h))
            /\ \A i \in 1..Len(files'[name].data.messages) :
                  files'[name].data.messages[i].role # "system"
            /\ files'[name].data.start_time = h[2].timestamp
            /\ Len(h) = 2 =>
                  /\ Len(files'[name].data.messages) = 1
                  /\ files'[name].data.messages[1].role = "assistant"
                  /\ files'[name].data.messages[1].type = "welcome"

\* C11: the record an export writes holds the log's messages after the system
\* message, all of them and in log order, and its start_time is the timestamp of
\* the first of them; a log with only the welcome exports that one message, role
\* assistant, tagged welcome.
C11_ExportedRecord == [][\A c \in Conns : C11_Step(c)]_vars

\* a record of one full turn: welcome, user, assistant, started before it ended
C11_Witness ==
    /\ ConversationFile(session_id[1]) \in DOMAIN files
    /\ LET data == files[ConversationFile(session_id[1])].data
       IN  /\ Len(data.messages) = 3
           /\ data.messages[1].type = "welcome"
           /\ data.messages[2].role = "user"
           /\ data.messages[3].role = "assistant"
           /\ data.start_time = data.messages[1].timestamp
           /\ data.start_time < data.messages[3].timestamp

\* connection c's step finishes the handling of a user_audio frame and returns
\* to the receive loop
UserAudioDone(c) ==
    /\ local[c].frame = "user_audio"
    /\ pc[c] # "recv"
    /\ pc'[c] = "recv"
LastEvent(c) == outbound[c][Len(outbound[c])]

\* the three stages succeeded: a text was transcribed, the generator answered,
\* the synthesizer returned audio
PipelineSucceeded(c) ==
    /\ local[c].user_text \notin {Unbound, ""}
    /\ ~local[c].llm_raised
    /\ local[c].audio # NoAudio

\* C12 as stated: a user_audio frame ends in one outbound event,
\* assistant_response when the pipeline succeeded and error when the transcription
\* was empty, the generator failed or the synthesizer failed.
C12_ErrorOnAnyStageFailure ==
    [][\A c \in Conns :
          UserAudioDone(c) =>
              /\ Len(outbound'[c]) = Len(outbound[c]) + 1
              /\ LastEvent(c)'.type =
                    IF PipelineSucceeded(c) THEN "assistant_response" ELSE "error"]_vars

C12_Step(c) ==
    /\ UserAudioDone(c) =>
          /\ Len(outbound'[c]) = Len(outbound[c]) + 1
          /\ SubSeq(outbound'[c], 1, Len(outbound[c])) = outbound[c]
          /\ c \in sessions'
          /\ IF local[c].user_text \notin {Unbound, ""} /\ local[c].audio # NoAudio
             THEN /\ LastEvent(c)'.type = "assistant_response"
                  /\ LastEvent(c)'.audio = local[c].audio
                  /\ LastEvent(c)'.text = local[c].text
                  /\ local[c].text \in (IF local[c].llm_raised THEN {FallbackText} ELSE Replies)
             ELSE LastEvent(c)'.type = "error"
    /\ ((local[c].frame = "user_audio" \/ local'[c].frame = "user_audio") /\ ~UserAudioDone(c)) =>
          outbound'[c] = outbound[c]
    /\ (local[c].frame = "user_audio" /\ alive[c] /\ pc'[c] # pc[c] /\ AtAwait(c)) =>
          UserAudioDone(c)

\* C12 amended: with the connection up, a user_audio frame ends in exactly one
\* outbound event and the session stays open: assistant_response with the text and
\* the audio when a text was transcribed and the synthesizer returned audio, the
\* text being the reply or, after a generator failure, the fallback apology; error
\* when the audio was undecodable, the transcription empty or the audio missing.
C12_OneEventPerUserAudio == [][\A c \in Conns : C12_Step(c)]_vars

\* the generator failed, the client got the fallback text with audio, and the
\* session went on to the next frame
C12_Witness ==
    /\ Len(outbound[1]) = 3
    /\ outbound[1][3].type = "assistant_response"
    /\ outbound[1][3].text = FallbackText
    /\ outbound[1][3].audio # NoAudio
    /\ nrecv[1] = 2
    /\ 1 \in sessions

C13_Step(c) ==
    /\ (calls'[c].save = calls[c].save + 1 /\ ~alive[c]) =>
          /\ pc'[c] = "done"
          /\ c \notin sessions'
    /\ (calls'[c].save = calls[c].save + 1 /\ alive[c]) =>
          /\ pc'[c] = "send_saved"
          /\ local'[c].filename \in {NoName, ConversationFile(session_id[c])}
          /\ local'[c].filename = NoName => files' = files
          /\ alive'[c]
          /\ c \in sessions'
    /\ (EndConversation(c) /\ local[c].filename = NoName /\ alive[c] /\ pc'[c] # pc[c]) =>
          /\ pc'[c] = "recv"
          /\ alive'[c]
          /\ c \in sessions'

\* C13: a failed export never reaches its caller as an exception: an export on
\* disconnect, failed or not, is followed by the removal of the session and the
\* end of the handler; an export on end_conversation that failed returns the
\* empty name, and the handler sends its event and is back at the receive loop
\* with the connection open and the session registered.
C13_ExportFailureContained == [][\A c \in Conns : C13_Step(c)]_vars

\* an export failed on end_conversation, the session went on, then the client
\* left, the export failed again and the session was removed all the same
C13_Witness ==
    /\ pc[1] = "done"
    /\ 1 \notin sessions
    /\ calls[1].save = 2
    /\ ConversationFile(session_id[1]) \notin DOMAIN files
    /\ Len(SavedEvents(1)) = 1
    /\ SavedEvents(1)[1].filename = NoName

C14_Inv(c) ==
    (local[c].llm_raised /\ pc[c] \in {"tts", "send_response", "send_error", "send_exception"}) =>
        local[c].text = FallbackText

C14_Step(c) ==
    /\ (pc[c] = "llm" /\ pc'[c] # "llm") =>
          /\ local[c].user_text # ""
          /\ pc'[c] = "tts"
          /\ calls'[c].tts = calls[c].tts + 1
          /\ local'[c].llm_raised => local'[c].text = FallbackText
    /\ (pc[c] = "tts" /\ local[c].llm_raised /\ pc'[c] # "tts") =>
          /\ local'[c].text = FallbackText
          /\ pc'[c] = IF local'[c].audio # NoAudio THEN "send_response" ELSE "send_error"

\* C14: when the response generator raises after a non-empty transcription the
\* pipeline goes on: the synthesizer is called once more, its input is the
\* fallback apology, and the text the pipeline returns is that apology.
C14_FallbackOnGeneratorFailure ==
    /\ [](\A c \in Conns : C14_Inv(c))
    /\ [][\A c \in Conns : C14_Step(c)]_vars

\* the generator raised, the synthesizer spoke the apology, the pipeline returned it
C14_Witness ==
    /\ pc[1] = "send_response"
    /\ local[1].llm_raised
    /\ local[1].text = FallbackText
    /\ local[1].audio # NoAudio
    /\ calls[1].tts = 2

\* C15: once transcribe_audio has returned, with text, with empty text or
\* through its except clause, the temporary audio file of the session is gone.
C15_TempFileRemoved ==
    \A c \in Conns :
        (session_id[c] # NoTime /\ pc[c] # "stt") =>
            TempFile(session_id[c]) \notin DOMAIN files

BeforeWelcome == {"idle", "connecting", "send_connected", "crashed"}
IsWelcomeEvent(e) ==
    /\ e.type = "assistant_response"
    /\ "is_welcome" \in DOMAIN e
    /\ e.is_welcome

C16_Inv(c) ==
    /\ pc[c] \notin BeforeWelcome =>
          /\ Len(History(c)) >= 2
          /\ History(c)[2].role = "assistant"
          /\ History(c)[2].type = "welcome"
          /\ History(c)[2].content = WELCOME_MESSAGE
    /\ pc[c] \in BeforeWelcome \cup {"welcome_tts", "send_welcome"} => nrecv[c] = 0
    /\ nrecv[c] > 0 =>
          /\ Len(outbound[c]) >= 2
          /\ outbound[c][1].type = "connected"
          /\ IsWelcomeEvent(outbound[c][2])
C16_Step(c) ==
    /\ (pc[c] = "welcome_tts" /\ pc'[c] # "welcome_tts") => pc'[c] = "send_welcome"
    /\ (pc[c] = "send_welcome" /\ pc'[c] # "send_welcome") =>
          /\ pc'[c] = "recv"
          /\ c \in sessions'
          /\ alive[c] =>
                /\ Len(outbound'[c]) = 2
                /\ IsWelcomeEvent(outbound'[c][2])
                /\ outbound'[c][2].audio = local[c].audio

\* C16: the welcome comes before any input: once get_welcome_audio has run the
\* second log entry is the assistant entry tagged welcome; no frame is received
\* before the welcome has been sent, and when one has been received the first two
\* events sent were `connected` and the welcome assistant_response; whatever
\* the welcome synthesis returned, the handler sends the welcome with that audio
\* (empty after a failure) and enters the receive loop with the session registered.
C16_WelcomeBeforeInput ==
    /\ [](\A c \in Conns : C16_Inv(c))
    /\ [][\A c \in Conns : C16_Step(c)]_vars

\* the welcome synthesis failed, the welcome went out with empty audio, and the
\* session received a frame afterwards
C16_Witness ==
    /\ nrecv[1] >= 1
    /\ Len(outbound[1]) >= 2
    /\ IsWelcomeEvent(outbound[1][2])
    /\ outbound[1][2].audio = NoAudio
    /\ History(1)[2].type = "welcome"

TakesOther(c) ==
    /\ nrecv'[c] = nrecv[c] + 1
    /\ arrived[c][nrecv'[c]] = "other"

C17_Inv(c) == local[c].frame \in {"", "user_audio", "end_conversation"}
C17_Step(c) ==
    TakesOther(c) =>
        /\ conversation_history' = conversation_history
        /\ sessions' = sessions
        /\ outbound' = outbound
        /\ files' = files
        /\ calls' = calls
        /\ local'[c] = local[c]
        /\ alive'[c]
        /\ pc'[c] = "recv"

\* C17: a frame whose type is neither user_audio nor end_conversation is ignored:
\* receiving it changes neither the conversation log nor the session registry,
\* sends nothing, calls no service and writes no file, and the handler is at
\* receive_json again; no handling ever runs on behalf of such a frame.
C17_OtherFrameIgnored ==
    /\ [](\A c \in Conns : C17_Inv(c))
    /\ [][\A c \in Conns : C17_Step(c)]_vars

\* a frame of another type was taken, and the user_audio frame behind it after it
C17_Witness ==
    /\ arrived[1] = <<"other", "user_audio">>
    /\ nrecv[1] = 2
    /\ pc[1] = "stt"
    /\ Len(outbound[1]) = 2

IsPrefix(s, t) == Len(s) <= Len(t) /\ SubSeq(t, 1, Len(s)) = s

\* C18: the stored conversation log is append-only: in every step the log before
\* the step is a prefix of the log after it, also in the steps that build the
\* capped message list for the generator.
C18_AppendOnly == [][\A c \in Conns : IsPrefix(History(c), History(c)')]_vars

\* the log has outgrown the cap and the generator's view was cut to it
C18_Witness ==
    /\ Len(History(1)) > MAX_CONVERSATION_HISTORY + 1
    /\ Len(api_messages[1]) = MAX_CONVERSATION_HISTORY + 1
    /\ IsPrefix(<<SystemEntry>>, History(1))
    /\ History(1)[2].type = "welcome"

AssistantEntries(c) == SelectSeq(History(c), LAMBDA m : m.role = "assistant")
LastAssistantContent(c) ==
    IF AssistantEntries(c) = <<>> THEN ""
    ELSE AssistantEntries(c)[Len(AssistantEntries(c))].content
SendsAssistantResponse(c) ==
    /\ Len(outbound'[c]) = Len(outbound[c]) + 1
    /\ outbound'[c][Len(outbound'[c])].type = "assistant_response"

\* C19: every assistant_response event sent to the client, the welcome and the
\* fallback replies included, carries the content of the most recent assistant
\* entry of the session's conversation log at the moment it is sent.
C19_ResponseTextIsLogged ==
    [][\A c \in Conns :
          SendsAssistantResponse(c) =>
              outbound'[c][Len(outbound'[c])].text = LastAssistantContent(c)]_vars

\* C20: every conversation_saved event carries a non-empty filename, and that
\* name is the name of a record the export wrote; a failed export is followed
\* by no conversation_saved event.
C20_SavedEventNamesRecord ==
    \A c \in Conns :
        \A i \in 1..Len(SavedEvents(c)) :
            /\ SavedEvents(c)[i].filename # NoName
            /\ SavedEvents(c)[i].filename \in DOMAIN files
====
